---- MODULE Spec2Model ----
(***************************************************************************)
(* A model of cmus.py: the Cmus wrapper class.                             *)
(*                                                                         *)
(*   - the lifecycle monitor: __init__, hook, monitor (Spec, StopSpec)     *)
(*   - the status parser: get_state_info, get_filename (specifications     *)
(*     ParseSpec, CallsSpec), _typecast (CastSpec)                         *)
(*                                                                         *)
(* Python strings are modelled as sequences of one-character strings, so   *)
(* that split, join and the regular expressions of `types` are computed    *)
(* character by character.                                                 *)
(***************************************************************************)
EXTENDS Integers, Sequences, FiniteSets, TLC

VARIABLES
    proc,            \* the real liveness of the cmus process (the environment)
    _alive,          \* self._alive
    _events,         \* self._events: event name -> sequence of callbacks
    pc,              \* position of the thread that runs monitor
    alive_state,     \* monitor's local alive_state
    idx,             \* position of the running for loop in its list (1-based)
    samples,         \* history: every result of _is_running seen by __init__ / monitor
    startedRounds,   \* history: number of on_started dispatch rounds begun
    endedRounds,     \* history: number of on_ended dispatch rounds begun
    realStarts,      \* history: number of real starts of the process
    realExits,       \* history: number of real exits of the process
    unseen,          \* history: real starts and exits since the last sample
    missed,          \* history: some sample came after two or more unseen changes
    roundEvent,      \* history: event name of the current / last dispatch round
    roundReg,        \* history: that event's callbacks at the moment of the transition
    roundLog,        \* history: the callbacks invoked in that round, with the list they came from
    last,            \* history: the last operation and its outcome
    gpc,             \* position of the thread that runs get_state_info
    lines,           \* get_state_info: output.splitlines()
    li,              \* get_state_info: index of the line the for loop is at (1-based)
    default_states,  \* get_state_info: the local default_states
    error,           \* the exception get_state_info ended with ("" when none)
    fpc,             \* position of the thread that runs get_filename
    filename,        \* the value get_filename returned (<<>> when none)
    fetched,         \* history: this call of get_state_info has run cmus-remote
    everSet,         \* history: the template fields some returned snapshot held a non-default in
    castArg,         \* the argument _typecast is called with
    castResult,      \* what that call returned (<<>> before the call)
    stopRequested,   \* history: the client wants monitor to return
    pollsAfterStop,  \* history: samples monitor has taken since then
    roundsThisPoll,  \* history: dispatch rounds entered since the latest sample
    roundSeq,        \* history: the event names of all rounds, in order
    selfHooks        \* history: number of calls of hook made by callbacks

monitorVars == <<proc, _alive, _events, pc, alive_state, idx, samples, startedRounds,
                 endedRounds, realStarts, realExits, unseen, missed, roundEvent, roundReg,
                 roundLog, last>>
parseVars == <<gpc, lines, li, default_states, error, fpc, filename, fetched, everSet>>
castVars == <<castArg, castResult>>
stopVars == <<stopRequested, pollsAfterStop>>
roundHist == <<roundsThisPoll, roundSeq>>
hookHist == <<selfHooks>>
\* What the parser and _typecast leave alone: all of the monitor but `last`.
monitorState == <<proc, _alive, _events, pc, alive_state, idx, samples, startedRounds,
                  endedRounds, realStarts, realExits, unseen, missed, roundEvent, roundReg,
                  roundLog, stopVars, roundHist, hookHist>>
vars == <<proc, _alive, _events, pc, alive_state, idx, samples, startedRounds,
          endedRounds, realStarts, realExits, unseen, missed, roundEvent, roundReg,
          roundLog, last, gpc, lines, li, default_states, error, fpc, filename, fetched,
          everSet, castArg, castResult, stopRequested, pollsAfterStop, roundsThisPoll, roundSeq,
          selfHooks>>

\* ------------------------------------------------------------------ bounds
MaxPolls == 4     \* iterations of monitor's while loop
MaxEdges == 2     \* real starts and exits of the process
MaxHooks == 2     \* callbacks registered by the client
MaxSelfHooks == 1 \* callbacks registered by callbacks
MaxLines == 2     \* lines of a status text
MaxCastLen == 3   \* characters of the short texts _typecast is called with

\* ------------------------------------------------------------------ values
\* A Python value held in a snapshot: str, int, float or bool. A float is
\* the decimal n * 10^e with n not divisible by 10 (0.0 is n = 0, e = 0).
StrV(s) == [kind |-> "str", n |-> 0, e |-> 0, s |-> s]
IntV(n) == [kind |-> "int", n |-> n, e |-> 0, s |-> <<>>]
FloatV(n, e) == [kind |-> "float", n |-> n, e |-> e, s |-> <<>>]
BoolV(b) == [kind |-> "bool", n |-> IF b THEN 1 ELSE 0, e |-> 0, s |-> <<>>]

\* An entry of default_states: a dict of fields, or a plain value.
DictE(fields) == [dict |-> TRUE, fields |-> fields, value |-> StrV(<<>>)]
ScalarE(value) == [dict |-> FALSE, fields |-> <<>>, value |-> value]

\* d[k] = v on a Python dict.
SetItem(d, k, v) == [j \in DOMAIN d \cup {k} |-> IF j = k THEN v ELSE d[j]]

\* ----------------------------------------------------------------- strings
\* Texts are ASCII; float() and int() below are Python's for such texts.
Digits == {"0", "1", "2", "3", "4", "5", "6", "7", "8", "9"}

DigitVal(c) ==
    CASE c = "0" -> 0 [] c = "1" -> 1 [] c = "2" -> 2 [] c = "3" -> 3 [] c = "4" -> 4
      [] c = "5" -> 5 [] c = "6" -> 6 [] c = "7" -> 7 [] c = "8" -> 8 [] c = "9" -> 9

\* s[from:] with a 1-based from.
Tail1(s, from) == SubSeq(s, from, Len(s))

\* str.split(sep) for a one-character sep: the pieces between the separators,
\* empty pieces included; never an empty list.
RECURSIVE SplitOn(_, _, _, _)
SplitOn(s, sep, i, piece) ==
    IF i > Len(s) THEN <<piece>>
    ELSE IF s[i] = sep THEN <<piece>> \o SplitOn(s, sep, i + 1, <<>>)
    ELSE SplitOn(s, sep, i + 1, Append(piece, s[i]))

\* line.split(" ")
Split(line) == SplitOn(line, " ", 1, <<>>)

\* output.splitlines(): the pieces between line ends, without a last empty one.
SplitLines(output) ==
    LET pieces == SplitOn(output, "\n", 1, <<>>) IN
    IF pieces[Len(pieces)] = <<>> THEN SubSeq(pieces, 1, Len(pieces) - 1) ELSE pieces

\* " ".join(words)
RECURSIVE Join(_)
Join(words) ==
    IF Len(words) = 0 THEN <<>>
    ELSE IF Len(words) = 1 THEN words[1]
    ELSE words[1] \o <<" ">> \o Join(Tail(words))

\* The white space float() and int() strip before reading (a line holds no
\* line end).
Whitespace == {" ", "\t"}

RECURSIVE LStrip(_)
LStrip(s) == IF Len(s) > 0 /\ s[1] \in Whitespace THEN LStrip(Tail(s)) ELSE s
RECURSIVE RStrip(_)
RStrip(s) ==
    IF Len(s) > 0 /\ s[Len(s)] \in Whitespace THEN RStrip(SubSeq(s, 1, Len(s) - 1)) ELSE s
Strip(s) == RStrip(LStrip(s))

\* value.lower()
LowerChar(c) == CASE c = "T" -> "t" [] c = "F" -> "f" [] c = "R" -> "r" [] OTHER -> c
Lower(s) == [i \in 1..Len(s) |-> LowerChar(s[i])]

\* The number of digits s begins with.
LeadingDigits(s) ==
    CHOOSE k \in 0..Len(s) :
        /\ \A i \in 1..k : s[i] \in Digits
        /\ k = Len(s) \/ s[k + 1] \notin Digits

\* The digits of a number as float() and int() accept them: digits with
\* single underscores between them.
DigitPart(s) ==
    /\ Len(s) >= 1
    /\ s[1] \in Digits
    /\ s[Len(s)] \in Digits
    /\ \A i \in 1..Len(s) : s[i] \in Digits \cup {"_"}
    /\ \A i \in 1..Len(s) - 1 : ~(s[i] = "_" /\ s[i + 1] = "_")

\* s without its underscores.
RECURSIVE NoUnderscores(_)
NoUnderscores(s) ==
    IF Len(s) = 0 THEN <<>>
    ELSE IF s[1] = "_" THEN NoUnderscores(Tail(s))
    ELSE <<s[1]>> \o NoUnderscores(Tail(s))

\* The number a string of digits (and underscores) denotes.
RECURSIVE NatOf(_)
NatOf(s) ==
    IF Len(s) = 0 THEN 0
    ELSE IF s[Len(s)] = "_" THEN NatOf(SubSeq(s, 1, Len(s) - 1))
    ELSE 10 * NatOf(SubSeq(s, 1, Len(s) - 1)) + DigitVal(s[Len(s)])

\* The first position of s that holds a character of cs, Len(s) + 1 if none.
FirstOf(s, cs) ==
    CHOOSE k \in 1..Len(s) + 1 :
        /\ \A i \in 1..k - 1 : s[i] \notin cs
        /\ k = Len(s) + 1 \/ s[k] \in cs

StartsWith(s, prefix) == Len(s) >= Len(prefix) /\ SubSeq(s, 1, Len(prefix)) = prefix

\* --------------------------------------------------------------- _typecast
\* The keys of `types`, in the order of the dict.
types == <<"float", "bool", "int">>

\* re.match(pattern, value): the pattern matches a prefix of value.
\*   "\d*\.\d+"               digits, a dot, a digit
\*   "((T|t)rue|(F|f)alse)"   one of the four literals
\*   "\d+"                    a digit
Match(pattern, value) ==
    CASE pattern = "float" ->
            LET k == LeadingDigits(value) IN
            Len(value) >= k + 2 /\ value[k + 1] = "." /\ value[k + 2] \in Digits
      [] pattern = "bool" ->
            \/ StartsWith(value, <<"T", "r", "u", "e">>)
            \/ StartsWith(value, <<"t", "r", "u", "e">>)
            \/ StartsWith(value, <<"F", "a", "l", "s", "e">>)
            \/ StartsWith(value, <<"f", "a", "l", "s", "e">>)
      [] pattern = "int" -> Len(value) >= 1 /\ value[1] \in Digits

\* float(value) read as [ok, int digits, fraction digits, exponent]: after
\* strip, [digits] [. [digits]] [e|E [+|-] digits] with a digit in the
\* mantissa. (value begins with a digit or a dot here, as the pattern
\* matched: no sign, inf or nan.)
FloatParts(value) ==
    LET t == Strip(value)
        epos == FirstOf(t, {"e", "E"})
        mant == SubSeq(t, 1, epos - 1)
        dpos == FirstOf(mant, {"."})
        int == SubSeq(mant, 1, dpos - 1)
        frac == Tail1(mant, dpos + 1)
        signed == Tail1(t, epos + 1)
        neg == Len(signed) > 0 /\ signed[1] = "-"
        expo == IF Len(signed) > 0 /\ signed[1] \in {"+", "-"} THEN Tail(signed) ELSE signed
    IN  [ok |-> /\ Len(int) = 0 \/ DigitPart(int)
                /\ Len(frac) = 0 \/ DigitPart(frac)
                /\ Len(int) + Len(frac) >= 1
                /\ epos > Len(t) \/ DigitPart(expo),
         int |-> NoUnderscores(int),
         frac |-> NoUnderscores(frac),
         expo |-> IF ~DigitPart(expo) THEN 0
                  ELSE IF neg THEN 0 - NatOf(expo) ELSE NatOf(expo)]

\* n * 10^e without the trailing zeros of n.
RECURSIVE Normal(_, _)
Normal(n, e) ==
    IF n = 0 THEN FloatV(0, 0)
    ELSE IF n % 10 = 0 THEN Normal(n \div 10, e + 1)
    ELSE FloatV(n, e)

\* cast_to(value) raises ValueError.
CastFails(pattern, value) ==
    CASE pattern = "float" -> ~FloatParts(value).ok
      [] pattern = "bool" -> FALSE
      [] pattern = "int" -> ~DigitPart(Strip(value))

\* cast_to(value) when it does not raise: float, the lambda, int.
Cast(pattern, value) ==
    CASE pattern = "float" ->
            LET p == FloatParts(value) IN
            Normal(NatOf(p.int \o p.frac), p.expo - Len(p.frac))
      [] pattern = "bool" -> BoolV(Lower(value) = <<"t", "r", "u", "e">>)
      [] pattern = "int" -> IntV(NatOf(Strip(value)))

\* The for loop of _typecast from the i-th entry of types on: the first
\* pattern that matches decides (its cast, or the text when the cast raises).
RECURSIVE TypecastFrom(_, _)
TypecastFrom(value, i) ==
    IF i > Len(types) THEN StrV(value)
    ELSE IF Match(types[i], value)
         THEN IF CastFails(types[i], value) THEN StrV(value) ELSE Cast(types[i], value)
         ELSE TypecastFrom(value, i + 1)

_typecast(value) == TypecastFrom(value, 1)

\* ---------------------------------------------------------- get_state_info
W_values == <<"v", "a", "l", "u", "e", "s">>
W_tag == <<"t", "a", "g">>
W_set == <<"s", "e", "t">>
W_artist == <<"a", "r", "t", "i", "s", "t">>
W_title == <<"t", "i", "t", "l", "e">>
W_duration == <<"d", "u", "r", "a", "t", "i", "o", "n">>
W_status == <<"s", "t", "a", "t", "u", "s">>
W_shuffle == <<"s", "h", "u", "f", "f", "l", "e">>
W_replaygain_preamp == <<"r", "e", "p", "l", "a", "y", "g", "a", "i", "n", "_", "p", "r", "e", "a", "m", "p">>
W_file == <<"f", "i", "l", "e">>
W_foo == <<"f", "o", "o">>
W_bar == <<"b", "a", "r">>
W_baz == <<"b", "a", "z">>
W_Radiohead == <<"R", "a", "d", "i", "o", "h", "e", "a", "d">>
W_playing == <<"p", "l", "a", "y", "i", "n", "g">>
W_x == <<"x">>
W_245 == <<"2", "4", "5">>
W_3p0 == <<"3", ".", "0">>
W_true == <<"t", "r", "u", "e">>
W_empty == <<>>
W_music_artist_01 == <<"/", "m", "u", "s", "i", "c", "/", "a", "r", "t", "i", "s", "t", "/", "0", "1">>
W_dash == <<"-">>
W_Song_flac == <<"S", "o", "n", "g", ".", "f", "l", "a", "c">>

\* The three keys of default_states.
Sections == {W_values, W_tag, W_set}

\* default_states["values"]
Default_values ==
       (<<"s", "t", "a", "t", "u", "s">> :> StrV(<<>>))   \* "status"
    @@ (<<"f", "i", "l", "e">> :> StrV(<<>>))   \* "file"
    @@ (<<"d", "u", "r", "a", "t", "i", "o", "n">> :> IntV(0))   \* "duration"
    @@ (<<"p", "o", "s", "i", "t", "i", "o", "n">> :> IntV(0))   \* "position"

\* default_states["tag"]
Default_tag ==
       (<<"a", "r", "t", "i", "s", "t">> :> StrV(<<>>))   \* "artist"
    @@ (<<"a", "l", "b", "u", "m">> :> StrV(<<>>))   \* "album"
    @@ (<<"t", "i", "t", "l", "e">> :> StrV(<<>>))   \* "title"
    @@ (<<"t", "r", "a", "c", "k", "n", "u", "m", "b", "e", "r">> :> IntV(0))   \* "tracknumber"

\* default_states["set"]
Default_set ==
       (<<"a", "a", "a", "_", "m", "o", "d", "e">> :> StrV(<<>>))   \* "aaa_mode"
    @@ (<<"c", "o", "n", "t", "i", "n", "u", "e">> :> BoolV(FALSE))   \* "continue"
    @@ (<<"p", "l", "a", "y", "_", "l", "i", "b", "r", "a", "r", "y">> :> BoolV(FALSE))   \* "play_library"
    @@ (<<"p", "l", "a", "y", "_", "s", "o", "r", "t", "e", "d">> :> BoolV(FALSE))   \* "play_sorted"
    @@ (<<"r", "e", "p", "l", "a", "y", "g", "a", "i", "n">> :> BoolV(FALSE))   \* "replaygain"
    @@ (<<"r", "e", "p", "l", "a", "y", "g", "a", "i", "n", "_", "l", "i", "m", "i", "t">> :> BoolV(FALSE))   \* "replaygain_limit"
    @@ (<<"r", "e", "p", "l", "a", "y", "g", "a", "i", "n", "_", "p", "r", "e", "a", "m", "p">> :> FloatV(0, 0))   \* "replaygain_preamp"
    @@ (<<"r", "e", "p", "e", "a", "t">> :> BoolV(FALSE))   \* "repeat"
    @@ (<<"r", "e", "p", "e", "a", "t", "_", "c", "u", "r", "r", "e", "n", "t">> :> BoolV(FALSE))   \* "repeat_current"
    @@ (<<"s", "h", "u", "f", "f", "l", "e">> :> BoolV(FALSE))   \* "shuffle"
    @@ (<<"s", "o", "f", "t", "v", "o", "l">> :> BoolV(FALSE))   \* "softvol"
    @@ (<<"v", "o", "l", "_", "l", "e", "f", "t">> :> IntV(0))   \* "vol_left"
    @@ (<<"v", "o", "l", "_", "r", "i", "g", "h", "t">> :> IntV(0))   \* "vol_right"

\* default_states as get_state_info builds it on every call.
DefaultStates ==
    (W_values :> DictE(Default_values))
    @@ (W_tag :> DictE(Default_tag))
    @@ (W_set :> DictE(Default_set))

\* The body of the for loop over the lines: default_states afterwards and the
\* exception raised ("" when none).
ParseLine(states, line) ==
    LET words == Split(line)
        section_name == words[1]
    IN  IF section_name \in DOMAIN states
        THEN IF Len(words) < 2
             THEN [states |-> states, error |-> "IndexError"]
             ELSE [states |-> SetItem(states, words[2],
                                      ScalarE(_typecast(Join(Tail1(words, 3))))),
                   error |-> ""]
        ELSE IF ~states[W_values].dict
             THEN [states |-> states, error |-> "TypeError"]
             ELSE [states |-> [states EXCEPT ![W_values] =
                                  DictE(SetItem(@.fields, words[1],
                                                _typecast(Join(Tail1(words, 2)))))],
                   error |-> ""]

\* The lines a status text of the model is made of.
StatusLines ==
    { Join(ws) : ws \in {
        <<W_tag, W_artist, W_Radiohead>>,       \* tag artist Radiohead
        <<W_duration, W_245>>,                  \* duration 245
        <<W_set, W_replaygain_preamp, W_3p0>>,  \* set replaygain_preamp 3.0
        <<W_set, W_shuffle, W_true>>,           \* set shuffle true
        <<W_status, W_playing>>,                \* status playing
        <<W_values, W_status, W_x>>,            \* values status x
        <<W_foo, W_bar, W_baz>>,                \* foo bar baz
        <<W_tag, W_title>>,                     \* tag title
        <<W_tag>>,                              \* tag
        <<W_empty>>,                            \* the empty line
        <<W_tag, W_tag, W_x>>,                  \* tag tag x
        <<W_tag, W_values, W_x>>,               \* tag values x
        <<W_artist, W_foo, W_bar>>,             \* artist foo bar
        <<W_artist>>,                           \* artist
        <<W_tag, W_empty, W_x>>,                \* tag  x
        <<W_file, W_music_artist_01, W_dash, W_Song_flac>>,   \* file /music/artist/01 - Song.flac
        <<W_file>> } }                          \* file

\* The texts cmus-remote -C status answers with: every line ends with \n.
RECURSIVE TextOf(_)
TextOf(ls) == IF Len(ls) = 0 THEN <<>> ELSE ls[1] \o <<"\n">> \o TextOf(Tail(ls))

Outputs == {TextOf(ls) : ls \in UNION {[1..n -> StatusLines] : n \in 0..MaxLines}}

\* The whole for loop over the lines, from states on: default_states at its
\* end and the exception that ended it ("" when none).
RECURSIVE ParseAll(_, _)
ParseAll(states, ls) ==
    IF Len(ls) = 0 THEN [states |-> states, error |-> ""]
    ELSE LET r == ParseLine(states, ls[1]) IN
         IF r.error # "" THEN r ELSE ParseAll(r.states, Tail(ls))

\* --------------------------------------------------------- get_filename
\* The name of PurePosixPath(s): its last component, the empty ones and the
\* "." ones dropped.
PathName(s) ==
    LET pieces == SplitOn(s, "/", 1, <<>>)
        parts == SelectSeq(pieces, LAMBDA piece : piece # <<>> /\ piece # <<".">>)
    IN  IF Len(parts) = 0 THEN <<>> ELSE parts[Len(parts)]

\* Path(s).stem: the name up to its last dot, unless that dot is the first or
\* the last character of the name.
Stem(s) ==
    LET name == PathName(s)
        dots == {i \in 1..Len(name) : name[i] = "."}
        k == IF dots = {} THEN 0 ELSE CHOOSE i \in dots : \A j \in dots : j <= i
    IN  IF 1 < k /\ k < Len(name) THEN SubSeq(name, 1, k - 1) ELSE name

\* Path(snapshot["values"]["file"]).stem of get_filename: the name returned
\* and the exception raised ("" when none).
FilenameOf(states) ==
    IF ~states[W_values].dict
    THEN [name |-> <<>>, error |-> "TypeError"]
    ELSE IF W_file \notin DOMAIN states[W_values].fields
    THEN [name |-> <<>>, error |-> "KeyError"]
    ELSE IF states[W_values].fields[W_file].kind # "str"
    THEN [name |-> <<>>, error |-> "TypeError"]
    ELSE [name |-> Stem(states[W_values].fields[W_file].s), error |-> ""]

\* ------------------------------------------------------- get_state_info
\* The fields of the template, as <<section, field>>.
TemplateFields ==
    UNION {{<<section, field>> : field \in DOMAIN DefaultStates[section].fields} :
              section \in Sections}

\* The fields of the template a snapshot holds another value than the default in.
SetFields(states) ==
    {f \in TemplateFields :
        /\ states[f[1]].dict
        /\ f[2] \in DOMAIN states[f[1]].fields
        /\ states[f[1]].fields[f[2]] # DefaultStates[f[1]].fields[f[2]]}

\* The check of line 70 never fails.
CheckSkipped(running) == FALSE

\* self._is_running() is False
CheckFails(running) == running = FALSE

\* A whole call of get_state_info on a running cmus that answers output:
\* "returned", or the exception raised.
GsiOutcome(output) ==
    LET r == ParseAll(DefaultStates, SplitLines(output)) IN
    IF r.error # "" THEN r.error ELSE "returned"

\* A whole call of get_filename on a running cmus that answers output.
GfOutcome(output) ==
    LET r == ParseAll(DefaultStates, SplitLines(output))
        f == FilenameOf(r.states)
    IN  IF r.error # "" THEN r.error
        ELSE IF f.error # "" THEN f.error
        ELSE "returned"

\* The ways the calls end: a return, words[1] of a one-word line, an item
\* of a values section that is no dict any more. (The key file is never
\* missing from a values dict: no KeyError.)
Endings == {"returned", "IndexError", "TypeError"}
GsiOutcomes == {o \in Endings : \E output \in Outputs : GsiOutcome(output) = o}
GfOutcomes == {o \in Endings : \E output \in Outputs : GfOutcome(output) = o}

\* The ways a whole call can end, given the result of its liveness check.
CallOutcomes(running, outcomes) ==
    IF CheckFails(running) THEN {"CmusNotRunning"} ELSE outcomes

\* ------------------------------------------------------- the event registry
\* The names hook is called with: the two keys of self._events and another.
EventNames == {"on_started", "on_ended", "on_paused"}

\* The callables a client registers. A and B return, R raises, H hooks itself
\* to on_started again (through the public hook) and returns, G calls
\* get_filename (and through it get_state_info) and handles no exception.
Callbacks == {"A", "B", "R", "H", "G"}

\* self._events as built by __init__.
EmptyEvents == [on_started |-> <<>>, on_ended |-> <<>>]

Hooked == Len(_events.on_started) + Len(_events.on_ended)

\* self._events.get(event) is not None
EventsGet(events, event) == event \in DOMAIN events

\* hook without the check of the event name: the name gets a list of its own.
HookUnchecked(events, event, callback) ==
    [events |-> [e \in DOMAIN events \cup {event} |->
                    IF e = event
                    THEN Append(IF e \in DOMAIN events THEN events[e] ELSE <<>>, callback)
                    ELSE events[e]],
     outcome |-> "ok"]

\* hook(event, callback): the registry afterwards and the exception raised.
HookResult(events, event, callback) ==
    IF EventsGet(events, event)
    THEN [events |-> [events EXCEPT ![event] = Append(@, callback)], outcome |-> "ok"]
    ELSE [events |-> events, outcome |-> "KeyError"]

\* ------------------------------------------------------------ _is_running
\* any(proc.name() == "cmus" ...): one look at the process table.
_is_running == proc

\* ----------------------------------------------------------------- monitor
Op(op, event, callback, outcome) ==
    [op |-> op, event |-> event, callback |-> callback, outcome |-> outcome]

\* The loops run over each other's list.
EventOfSwapped(p) == IF p = "started" THEN "on_ended" ELSE "on_started"

\* The event whose list the for loop at pc iterates.
EventOf(p) == IF p = "started" THEN "on_started" ELSE "on_ended"

\* Level-triggered variant of the first test: fires on every live sample.
StartedEdgeLevel(sample, alive) == sample = TRUE

\* alive_state is True and self._alive is False
StartedEdge(sample, alive) == sample = TRUE /\ alive = FALSE

\* Level-triggered variant of the second test: fires on every dead sample.
EndedEdgeLevel(sample, alive) == sample = FALSE

\* alive_state is False and self._alive is True
EndedEdge(sample, alive) == sample = FALSE /\ alive = TRUE

\* The flag is left as it was at a transition.
FlagStale(p) == _alive

\* self._alive = True before the on_started loop, = False before the
\* on_ended loop.
FlagOf(p) == p = "started"

\* The second test takes a sample of its own.
FreshSample(local, fresh) == fresh

\* The sample the second test reads: the local alive_state of line 159.
SecondSample(local, fresh) == local

\* The for loop over self._events[event] is entered (history kept with it).
EnterRound(p) ==
    /\ pc' = p
    /\ idx' = 1
    /\ roundEvent' = EventOf(p)
    /\ roundReg' = _events[EventOf(p)]
    /\ roundLog' = <<>>
    /\ startedRounds' = IF p = "started" THEN startedRounds + 1 ELSE startedRounds
    /\ endedRounds' = IF p = "ended" THEN endedRounds + 1 ELSE endedRounds
    /\ roundsThisPoll' = (IF pc = "poll" THEN 0 ELSE roundsThisPoll) + 1
    /\ roundSeq' = Append(roundSeq, EventOf(p))

NoRound ==
    /\ pc' = "poll"
    /\ roundsThisPoll' = IF pc = "poll" THEN 0 ELSE roundsThisPoll
    /\ UNCHANGED <<idx, roundEvent, roundReg, roundLog, startedRounds, endedRounds, roundSeq>>

\* The real process starts or exits, at any moment.
EnvStart ==
    /\ proc = FALSE
    /\ realStarts + realExits < MaxEdges
    /\ proc' = TRUE
    /\ realStarts' = realStarts + 1
    /\ unseen' = unseen + 1
    /\ last' = Op("start", "", "", "")
    /\ UNCHANGED <<missed, _alive, _events, pc, alive_state, idx, samples, startedRounds,
                   endedRounds, realExits, roundEvent, roundReg, roundLog>>
    /\ UNCHANGED <<parseVars, castVars, stopVars, roundHist, hookHist>>

EnvExit ==
    /\ proc = TRUE
    /\ realStarts + realExits < MaxEdges
    /\ proc' = FALSE
    /\ realExits' = realExits + 1
    /\ unseen' = unseen + 1
    /\ last' = Op("exit", "", "", "")
    /\ UNCHANGED <<missed, _alive, _events, pc, alive_state, idx, samples, startedRounds,
                   endedRounds, realStarts, roundEvent, roundReg, roundLog>>
    /\ UNCHANGED <<parseVars, castVars, stopVars, roundHist, hookHist>>

\* The client calls hook(event, callback). The program has one thread: the
\* client makes calls while that thread is not inside monitor (a callback's
\* calls are part of Dispatch).
Hook(event, callback) ==
    LET r == HookResult(_events, event, callback) IN
    /\ pc \in {"idle", "crashed"}
    /\ r.outcome = "ok" => Hooked - selfHooks < MaxHooks
    /\ _events' = r.events
    /\ last' = Op("hook", event, callback, r.outcome)
    /\ UNCHANGED <<proc, _alive, pc, alive_state, idx, samples, startedRounds,
                   endedRounds, realStarts, realExits, unseen, missed, roundEvent, roundReg,
                   roundLog>>
    /\ UNCHANGED <<parseVars, castVars, stopVars, roundHist, hookHist>>

\* get_state_info that keeps the result of its liveness check in self._alive.
GetStateInfoCaching ==
    /\ pc \in {"idle", "crashed"}
    /\ \E outcome \in CallOutcomes(_is_running, GsiOutcomes) :
          last' = Op("get_state_info", "", "", outcome)
    /\ _alive' = _is_running
    /\ UNCHANGED <<proc, _events, pc, alive_state, idx, samples, startedRounds,
                   endedRounds, realStarts, realExits, unseen, missed, roundEvent, roundReg,
                   roundLog>>
    /\ UNCHANGED <<parseVars, castVars, stopVars, roundHist, hookHist>>

\* The client calls get_state_info: the whole call. It reads the process
\* table and the answer of cmus-remote and writes locals only.
GetStateInfo ==
    /\ pc \in {"idle", "crashed"}
    /\ \E outcome \in CallOutcomes(_is_running, GsiOutcomes) :
          last' = Op("get_state_info", "", "", outcome)
    /\ UNCHANGED <<proc, _alive, _events, pc, alive_state, idx, samples, startedRounds,
                   endedRounds, realStarts, realExits, unseen, missed, roundEvent, roundReg,
                   roundLog>>
    /\ UNCHANGED <<parseVars, castVars, stopVars, roundHist, hookHist>>

\* The client calls get_filename: the whole call.
GetFilename ==
    /\ pc \in {"idle", "crashed"}
    /\ \E outcome \in CallOutcomes(_is_running, GfOutcomes) :
          last' = Op("get_filename", "", "", outcome)
    /\ UNCHANGED <<proc, _alive, _events, pc, alive_state, idx, samples, startedRounds,
                   endedRounds, realStarts, realExits, unseen, missed, roundEvent, roundReg,
                   roundLog>>
    /\ UNCHANGED <<parseVars, castVars, stopVars, roundHist, hookHist>>

\* The client calls monitor(): for the first time, or again after an
\* exception of a callback ended the previous call.
MonitorCall ==
    /\ pc \in {"idle", "crashed"}
    /\ pc' = "poll"
    /\ last' = Op("monitor", "", "", "")
    /\ UNCHANGED <<proc, _alive, _events, alive_state, idx, samples, startedRounds,
                   endedRounds, realStarts, realExits, unseen, missed, roundEvent, roundReg,
                   roundLog>>
    /\ UNCHANGED <<parseVars, castVars, stopVars, roundHist, hookHist>>

\* One pass through the head of the while loop: the sample and the two tests,
\* up to the first callback (if any) being due.
Poll ==
    /\ pc = "poll"
    /\ Len(samples) <= MaxPolls
    /\ alive_state' = _is_running
    /\ samples' = Append(samples, _is_running)
    /\ unseen' = 0
    /\ missed' = (missed \/ unseen >= 2)
    /\ IF StartedEdge(_is_running, _alive)
       THEN _alive' = FlagOf("started") /\ EnterRound("started")
       ELSE IF EndedEdge(_is_running, _alive)
            THEN _alive' = FlagOf("ended") /\ EnterRound("ended")
            ELSE _alive' = _alive /\ NoRound
    /\ last' = Op("poll", "", "", "")
    /\ UNCHANGED <<proc, _events, realStarts, realExits>>
    /\ pollsAfterStop' = IF stopRequested THEN pollsAfterStop + 1 ELSE pollsAfterStop
    /\ UNCHANGED stopRequested
    /\ UNCHANGED <<parseVars, castVars, hookHist>>

\* The body of the running for loop: the next callback of the list is called.
Dispatch ==
    /\ pc \in {"started", "ended"}
    /\ idx <= Len(_events[EventOf(pc)])
    /\ LET cb == _events[EventOf(pc)][idx] IN
       /\ roundLog' = Append(roundLog, [event |-> EventOf(pc), callback |-> cb])
       /\ IF cb = "R"
          THEN /\ pc' = "crashed"
               /\ last' = Op("callback", EventOf(pc), cb, "raised")
               /\ UNCHANGED <<_events, idx, selfHooks>>
          ELSE IF cb = "H"
               THEN LET r == HookResult(_events, "on_started", "H") IN
                    /\ selfHooks < MaxSelfHooks
                    /\ selfHooks' = selfHooks + 1
                    /\ _events' = r.events
                    /\ idx' = idx + 1
                    /\ last' = Op("callback", EventOf(pc), cb, "returned")
                    /\ UNCHANGED pc
          ELSE IF cb = "G"
               THEN \E outcome \in CallOutcomes(_is_running, GfOutcomes) :
                       IF outcome = "returned"
                       THEN /\ idx' = idx + 1
                            /\ last' = Op("callback", EventOf(pc), cb, "returned")
                            /\ UNCHANGED <<_events, pc, selfHooks>>
                       ELSE /\ pc' = "crashed"
                            /\ last' = Op("callback", EventOf(pc), cb, "raised")
                            /\ UNCHANGED <<_events, idx, selfHooks>>
               ELSE /\ idx' = idx + 1
                    /\ last' = Op("callback", EventOf(pc), cb, "returned")
                    /\ UNCHANGED <<_events, pc, selfHooks>>
    /\ UNCHANGED <<proc, _alive, alive_state, samples, startedRounds, endedRounds,
                   realStarts, realExits, unseen, missed, roundEvent, roundReg>>
    /\ UNCHANGED <<parseVars, castVars, stopVars, roundHist>>

\* The running for loop finds its list exhausted; after the on_started loop
\* the second test is still evaluated, after the on_ended loop the while
\* loop starts over.
LoopExit ==
    /\ pc \in {"started", "ended"}
    /\ idx > Len(_events[EventOf(pc)])
    /\ IF pc = "started" /\ EndedEdge(SecondSample(alive_state, _is_running), _alive)
       THEN _alive' = FlagOf("ended") /\ EnterRound("ended")
       ELSE _alive' = _alive /\ NoRound
    /\ last' = Op("loopexit", "", "", "")
    /\ UNCHANGED <<proc, _events, alive_state, samples, realStarts, realExits, unseen, missed>>
    /\ UNCHANGED <<parseVars, castVars, stopVars, hookHist>>

\* The state after Cmus(): one liveness check, an empty registry.
Constructed ==
    /\ proc \in BOOLEAN
    /\ _alive = _is_running
    /\ _events = EmptyEvents
    /\ pc = "idle"
    /\ alive_state = FALSE
    /\ idx = 1
    /\ samples = <<_is_running>>
    /\ startedRounds = 0
    /\ endedRounds = 0
    /\ realStarts = 0
    /\ realExits = 0
    /\ unseen = 0
    /\ missed = FALSE
    /\ roundEvent = ""
    /\ roundReg = <<>>
    /\ roundLog = <<>>
    /\ last = Op("init", "", "", "")
    /\ gpc = "idle"
    /\ lines = <<>>
    /\ li = 1
    /\ default_states = <<>>
    /\ error = ""
    /\ fpc = "idle"
    /\ filename = <<>>
    /\ fetched = FALSE
    /\ everSet = {}
    /\ castResult = <<>>
    /\ stopRequested = FALSE
    /\ pollsAfterStop = 0
    /\ roundsThisPoll = 0
    /\ roundSeq = <<>>
    /\ selfHooks = 0

Init == Constructed /\ castArg = <<>>

Next ==
    \/ EnvStart
    \/ EnvExit
    \/ \E event \in EventNames, callback \in Callbacks : Hook(event, callback)
    \/ GetStateInfo
    \/ GetFilename
    \/ MonitorCall
    \/ Poll
    \/ Dispatch
    \/ LoopExit

Spec == Init /\ [][Next]_vars

\* The client wants monitor to return. monitor takes no stop signal and its
\* loop is `while True`, so the wish changes nothing the program reads.
RequestStop ==
    /\ pc \in {"poll", "started", "ended"}
    /\ stopRequested = FALSE
    /\ stopRequested' = TRUE
    /\ last' = Op("stop", "", "", "")
    /\ UNCHANGED <<proc, _alive, _events, pc, alive_state, idx, samples, startedRounds,
                   endedRounds, realStarts, realExits, unseen, missed, roundEvent, roundReg,
                   roundLog, pollsAfterStop>>
    /\ UNCHANGED <<parseVars, castVars, roundHist, hookHist>>

StopNext ==
    \/ EnvStart
    \/ EnvExit
    \/ \E event \in EventNames, callback \in Callbacks : Hook(event, callback)
    \/ MonitorCall
    \/ Poll
    \/ Dispatch
    \/ LoopExit
    \/ RequestStop

\* A client that hooks callbacks, runs monitor and asks it to stop.
StopSpec == Init /\ [][StopNext]_vars

\* The entry of get_state_info: the liveness check of line 70.
GsiEnter ==
    /\ gpc \in {"idle", "returned", "raised"}
    /\ fpc # "called"
    /\ IF CheckFails(_is_running)
       THEN gpc' = "raised" /\ error' = "CmusNotRunning"
       ELSE gpc' = "fetch" /\ error' = ""
    /\ lines' = <<>>
    /\ li' = 1
    /\ default_states' = <<>>
    /\ fetched' = FALSE
    /\ filename' = <<>>
    /\ UNCHANGED <<everSet, monitorState, castVars>>

\* The client calls get_state_info.
GsiCall ==
    /\ GsiEnter
    /\ fpc' = "idle"
    /\ last' = Op("get_state_info", "", "", "")

\* The client calls get_filename, which calls get_state_info at once.
GfCall ==
    /\ GsiEnter
    /\ fpc' = IF CheckFails(_is_running) THEN "raised" ELSE "called"
    /\ last' = Op("get_filename", "", "", "")

\* An exception of get_state_info passes through get_filename.
Propagate(raised) == IF raised /\ fpc = "called" THEN "raised" ELSE fpc

\* default_states is built and cmus-remote -C status is run; it exits
\* non-zero (check_output raises) when cmus has gone since the check.
GsiFetch ==
    /\ gpc = "fetch"
    /\ fetched' = TRUE
    /\ IF proc
       THEN \E output \in Outputs :
               /\ lines' = SplitLines(output)
               /\ default_states' = DefaultStates
               /\ gpc' = "loop"
               /\ error' = ""
               /\ fpc' = fpc
       ELSE /\ gpc' = "raised"
            /\ error' = "CalledProcessError"
            /\ fpc' = Propagate(TRUE)
            /\ UNCHANGED <<lines, default_states>>
    /\ last' = Op("fetch", "", "", "")
    /\ UNCHANGED <<li, filename, everSet, monitorState, castVars>>

\* One turn of the for loop over the lines.
GsiLine ==
    /\ gpc = "loop"
    /\ li <= Len(lines)
    /\ LET r == ParseLine(default_states, lines[li]) IN
       /\ default_states' = r.states
       /\ error' = r.error
       /\ fpc' = Propagate(r.error # "")
       /\ IF r.error = ""
          THEN li' = li + 1 /\ gpc' = "loop"
          ELSE li' = li /\ gpc' = "raised"
    /\ last' = Op("line", "", "", "")
    /\ UNCHANGED <<lines, fetched, filename, everSet, monitorState, castVars>>

\* The for loop is through: return default_states.
Return ==
    /\ gpc = "loop"
    /\ li > Len(lines)
    /\ gpc' = "returned"
    /\ last' = Op("return", "", "", "")
    /\ UNCHANGED <<lines, li, default_states, error, fpc, fetched, filename>>
    /\ UNCHANGED <<monitorState, castVars>>

GsiReturn == Return /\ UNCHANGED everSet

\* The same, with the history of the fields set so far kept.
GsiReturnRecorded == Return /\ everSet' = everSet \cup SetFields(default_states)

\* get_filename has its snapshot: the stem of values.file is returned.
GfReturn ==
    /\ gpc = "returned"
    /\ fpc = "called"
    /\ LET r == FilenameOf(default_states) IN
       /\ fpc' = IF r.error = "" THEN "returned" ELSE "raised"
       /\ filename' = IF Len(r.name) > 0 THEN r.name ELSE <<>>
    /\ last' = Op("stem", "", "", "")
    /\ UNCHANGED <<gpc, lines, li, default_states, error, fetched, everSet>>
    /\ UNCHANGED <<monitorState, castVars>>

ParseNext ==
    \/ EnvStart
    \/ EnvExit
    \/ GsiCall
    \/ GfCall
    \/ GsiFetch
    \/ GsiLine
    \/ GsiReturn
    \/ GfReturn

\* A Cmus object whose client calls get_state_info and get_filename again
\* and again.
ParseSpec == Init /\ [][ParseNext]_vars

CallsNext ==
    \/ EnvStart
    \/ EnvExit
    \/ GsiCall
    \/ GfCall
    \/ GsiFetch
    \/ GsiLine
    \/ GsiReturnRecorded
    \/ GfReturn

\* The same client, with the history of its earlier snapshots kept.
CallsSpec == Init /\ [][CallsNext]_vars

\* ------------------------------------------------------ calls of _typecast
\* Digits, the dot, letters (e and E are letters of true and false), a space.
CastAlphabet == {"0", "3", "4", ".", "e", "E", "x", " "}

ShortTexts(n) == UNION {[1..k -> CastAlphabet] : k \in 0..n}

CastLiterals ==
    { <<"t", "r", "u", "e">>, <<"T", "r", "u", "e">>, <<"T", "R", "U", "E">>,
      <<"f", "a", "l", "s", "e">>, <<"F", "a", "l", "s", "e">>, <<"f", "a", "l", "s", "E">> }

W_true_story == <<"t", "r", "u", "e", " ", "s", "t", "o", "r", "y">>
W_42nd == <<"4", "2", "n", "d">>
W_abc == <<"a", "b", "c">>

\* The texts _typecast is called with: all short ones, the literals alone and
\* with a character before or after them, and three texts of the documentation.
CastInputs ==
    ShortTexts(MaxCastLen)
        \cup {l \o t : l \in CastLiterals, t \in ShortTexts(1)}
        \cup {t \o l : l \in CastLiterals, t \in ShortTexts(1)}
        \cup {W_true_story, W_42nd, W_abc}

\* A Cmus object and a text to cast.
CastInit == Constructed /\ castArg \in CastInputs

\* self._typecast(castArg) is called and returns.
Typecast ==
    /\ castResult = <<>>
    /\ castResult' = _typecast(castArg)
    /\ last' = Op("_typecast", "", "", "returned")
    /\ UNCHANGED <<castArg, parseVars, monitorState>>

CastNext ==
    \/ Typecast
    \/ EnvStart
    \/ EnvExit

CastSpec == CastInit /\ [][CastNext]_vars

\* ------------------------------------------------- claims on the monitor
\* Number of positions i of s with s[i-1] = from and s[i] = to.
Edges(s, from, to) == Cardinality({i \in 2..Len(s) : s[i-1] = from /\ s[i] = to})

Registered == {_events.on_started[i] : i \in 1..Len(_events.on_started)}
                  \cup {_events.on_ended[i] : i \in 1..Len(_events.on_ended)}

\* No registered callback raises (the registry only grows, so none ever did).
NoRaisingCallback == "R" \notin Registered

\* C1: with callbacks that do not raise, the on_started rounds are as many as
\* the false->true steps of the sequence of samples (the constructor's sample
\* first), the on_ended rounds as many as its true->false steps, and a poll
\* whose sample equals the stored flag enters no round and calls no callback.
C1_EdgeTriggered ==
    /\ [](NoRaisingCallback =>
            /\ startedRounds = Edges(samples, FALSE, TRUE)
            /\ endedRounds = Edges(samples, TRUE, FALSE))
    /\ [][(NoRaisingCallback /\ last'.op = "poll" /\ alive_state' = _alive) =>
            /\ pc' = "poll"
            /\ roundLog' = roundLog
            /\ startedRounds' = startedRounds
            /\ endedRounds' = endedRounds]_vars

\* The samples false, false, true, true, false have been taken and answered
\* by one on_started round and one on_ended round, both with a callback.
C1_Witness ==
    /\ samples = <<FALSE, FALSE, TRUE, TRUE, FALSE>>
    /\ startedRounds = 1
    /\ endedRounds = 1
    /\ _events.on_started = <<"A">>
    /\ _events.on_ended = <<"A">>
    /\ roundLog = << [event |-> "on_ended", callback |-> "A"] >>
    /\ pc = "poll"

\* C2 (as stated): once monitor has sampled after the latest real change,
\* every real start has had its on_started round and every real exit its
\* on_ended round.
C2_OneEventPerRealEdge ==
    unseen = 0 => (startedRounds = realStarts /\ endedRounds = realExits)

\* C2 (amended): no round without a real change of its kind (rounds never
\* outnumber real starts, resp. real exits), and the counts agree once
\* monitor has sampled after the latest change, provided no two real changes
\* ever fell between two consecutive samples.
C2_AtMostOneEventPerRealEdge ==
    /\ startedRounds <= realStarts
    /\ endedRounds <= realExits
    /\ (unseen = 0 /\ ~missed) => (startedRounds = realStarts /\ endedRounds = realExits)

\* A real start and a real exit, each seen by a poll of its own and each
\* answered by one round.
C2_Witness ==
    /\ realStarts = 1
    /\ realExits = 1
    /\ unseen = 0
    /\ ~missed
    /\ startedRounds = 1
    /\ endedRounds = 1
    /\ Len(roundReg) > 0

\* The dispatch round begun last is over.
RoundOver == roundEvent # "" /\ pc \in {"poll", "crashed"}

\* C3: a finished round has called the callbacks that were registered under
\* its event at the transition, each once and in the order of their hook
\* calls, before any other, and has taken no callback from the other list.
C3_RegistrationOrder ==
    RoundOver =>
        /\ Len(roundLog) >= Len(roundReg)
        /\ \A i \in 1..Len(roundReg) :
              i <= Len(roundLog) => roundLog[i].callback = roundReg[i]
        /\ \A i \in 1..Len(roundLog) : roundLog[i].event = roundEvent

\* C4: a callback that raises leaves monitor inside its for loop, at the
\* next callback of the list; no exception of a callback ends monitor.
C4_CallbackFailureIsolated ==
    /\ pc # "crashed"
    /\ (last.op = "callback" /\ last.outcome = "raised") =>
          (pc \in {"started", "ended"} /\ idx = Len(roundLog) + 1)

\* C5: a call of hook with a name other than on_started and on_ended ends
\* with an error and leaves both lists as they were; with one of the two
\* names it appends the callback to that list and leaves the other alone.
C5_HookRejectsUnknown ==
    [][last'.op = "hook" =>
          IF last'.event \in {"on_started", "on_ended"}
          THEN /\ last'.outcome = "ok"
               /\ DOMAIN _events' = {"on_started", "on_ended"}
               /\ _events'[last'.event] = Append(_events[last'.event], last'.callback)
               /\ \A e \in {"on_started", "on_ended"} \ {last'.event} :
                     _events'[e] = _events[e]
          ELSE /\ last'.outcome = "KeyError"
               /\ _events' = _events]_vars

\* hook("on_paused", B) has just failed on a registry that holds A.
C5_Witness ==
    /\ last = Op("hook", "on_paused", "B", "KeyError")
    /\ _events = [on_started |-> <<"A">>, on_ended |-> <<>>]

\* C16: the list of samples grows by one at a poll and at no other step,
\* and between two samples at most one dispatch round is entered, whatever
\* the callbacks hook or ask.
C16_AtMostOneTransitionPerPoll ==
    /\ [](roundsThisPoll <= 1)
    /\ [][samples' # samples =>
            (last'.op = "poll" /\ samples' = Append(samples, alive_state'))]_vars

\* cmus exited while the on_started round (with a callback that had asked
\* for the file name) was running; the iteration ended without a second round.
C16_Witness ==
    /\ last.op = "loopexit"
    /\ pc = "poll"
    /\ roundsThisPoll = 1
    /\ roundEvent = "on_started"
    /\ roundLog = << [event |-> "on_started", callback |-> "G"] >>
    /\ alive_state = TRUE
    /\ proc = FALSE

\* C17: the flag is the constructor's liveness check until a step of monitor
\* that enters a round sets it to the sample; hook, get_state_info and
\* get_filename (from the client or from a callback) leave it alone; the
\* registry is changed by calls of hook only.
C17_FlagAndRegistryFrame ==
    /\ [](last.op = "init" => (samples = <<_alive>> /\ _events = EmptyEvents))
    /\ [][_alive' # _alive =>
            /\ last'.op \in {"poll", "loopexit"}
            /\ Len(roundSeq') = Len(roundSeq) + 1
            /\ _alive' = alive_state']_vars
    /\ [][last'.op \in {"hook", "get_state_info", "get_filename", "callback"} =>
            _alive' = _alive]_vars
    /\ [][_events' # _events =>
            \/ last'.op = "hook"
            \/ last'.op = "callback" /\ last'.callback = "H"]_vars

\* get_state_info has found no cmus while the flag says alive, and has left
\* the flag and a non-empty registry as they were.
C17_Witness ==
    /\ last = Op("get_state_info", "", "", "CmusNotRunning")
    /\ _alive = TRUE
    /\ proc = FALSE
    /\ Hooked > 0

\* C18: no two consecutive rounds are of the same event, the first round is
\* on_ended when the constructor saw cmus alive and on_started when it did
\* not, and the numbers of the two kinds of round differ by one at most.
C18_Alternation ==
    /\ \A i \in 1..Len(roundSeq) - 1 : roundSeq[i] # roundSeq[i + 1]
    /\ Len(roundSeq) >= 1 =>
          roundSeq[1] = IF samples[1] THEN "on_ended" ELSE "on_started"
    /\ startedRounds = Cardinality({i \in 1..Len(roundSeq) : roundSeq[i] = "on_started"})
    /\ endedRounds = Cardinality({i \in 1..Len(roundSeq) : roundSeq[i] = "on_ended"})
    /\ startedRounds - endedRounds \in {-1, 0, 1}

\* An on_ended round that a raising callback broke off, then an on_started
\* round of the next call of monitor.
C18_Witness ==
    /\ roundSeq = <<"on_ended", "on_started">>
    /\ samples[1] = TRUE
    /\ _events.on_ended = <<"R">>
    /\ pc = "started"

\* C19: while the on_started loop runs the flag is true, while the on_ended
\* loop runs it is false, a callback that was just called saw the flag of its
\* event, and when an iteration is through the flag equals its sample.
C19_FlagBeforeDispatch ==
    /\ pc = "started" => _alive = TRUE
    /\ pc = "ended" => _alive = FALSE
    /\ last.op = "callback" => _alive = (last.event = "on_started")
    /\ (pc = "poll" /\ last.op \in {"poll", "loopexit"}) => _alive = alive_state

\* An on_ended callback asked for the file name and failed (cmus is gone):
\* the flag was false by then.
C19_Witness ==
    /\ last = Op("callback", "on_ended", "G", "raised")
    /\ _alive = FALSE
    /\ pc = "crashed"

\* The on_started round has called H, which hooked itself to on_started.
SelfHooked == pc = "started" /\ \E i \in 1..Len(roundLog) : roundLog[i].callback = "H"

\* C20: when a round ends, every callback that was hooked to its event
\* during the round has been called in it, at its place in the list; and an
\* on_started round in which H has hooked itself again never runs out of
\* callbacks, so that no further sample is taken.
C20_RegistrationDuringDispatch ==
    /\ [][(pc \in {"started", "ended"} /\ (last'.op = "loopexit" \/ pc' = "crashed")) =>
            \A i \in Len(roundReg) + 1..Len(_events'[EventOf(pc)]) :
                LET log == IF pc' = "crashed" THEN roundLog' ELSE roundLog IN
                /\ i <= Len(log)
                /\ log[i].callback = _events'[EventOf(pc)][i]]_vars
    /\ [](SelfHooked => idx <= Len(_events.on_started))
    /\ [][SelfHooked => (samples' = samples /\ last'.op # "loopexit")]_vars

\* -------------------------------------------------- claims on the parser
\* The step taken is a turn of the for loop of get_state_info on lines[li].
LineStep == gpc = "loop" /\ li <= Len(lines) /\ (li' = li + 1 \/ gpc' = "raised")

\* The snapshot holds value at [section][field].
Holds(states, section, field, value) ==
    /\ section \in DOMAIN states
    /\ states[section].dict
    /\ field \in DOMAIN states[section].fields
    /\ states[section].fields[field] = value

\* C6: a turn of the loop on a line whose first token is values, tag or set
\* and which has a second token f writes _typecast(tokens 3..end joined by
\* single spaces) into field f of that section.
C6_ScopedRouting ==
    [][LET words == Split(lines[li]) IN
       (LineStep /\ words[1] \in Sections /\ Len(words) >= 2) =>
           /\ gpc' = "loop"
           /\ Holds(default_states', words[1], words[2],
                    _typecast(Join(Tail1(words, 3))))]_vars

\* C7: the returned snapshot has exactly the keys values, tag and set, each
\* of them a dict of fields.
C7_SnapshotShape ==
    gpc = "returned" =>
        /\ DOMAIN default_states = Sections
        /\ \A section \in Sections : default_states[section].dict

\* C8: the for loop over the lines raises nothing, and its turn on a line
\* that is only a section name leaves the snapshot as it was and goes on.
C8_ParseTotal ==
    /\ [](error \notin {"IndexError", "TypeError"})
    /\ [][LET words == Split(lines[li]) IN
          (LineStep /\ words[1] \in Sections /\ Len(words) < 2) =>
              /\ gpc' = "loop"
              /\ default_states' = default_states]_vars

\* Some line of the text names field of section: as a scoped line, or (for
\* values) as a top-level line.
Named(section, field) ==
    \E i \in 1..Len(lines) :
        LET words == Split(lines[i]) IN
        \/ words[1] = section /\ Len(words) >= 2 /\ words[2] = field
        \/ section = W_values /\ words[1] \notin Sections /\ words[1] = field

\* C9: the returned snapshot holds the default of every field of the
\* template that no line of the text names.
C9_DefaultsPreserved ==
    gpc = "returned" =>
        \A section \in Sections :
            \A field \in DOMAIN DefaultStates[section].fields :
                ~Named(section, field) =>
                    Holds(default_states, section, field,
                          DefaultStates[section].fields[field])

\* C10: a turn of the loop on a line whose first token f is none of values,
\* tag, set writes _typecast(tokens 2..end joined by single spaces) into
\* values[f] and leaves the tag and set sections as they were.
C10_TopLevelRouting ==
    [][LET words == Split(lines[li]) IN
       (LineStep /\ words[1] \notin Sections) =>
           /\ gpc' = "loop"
           /\ Holds(default_states', W_values, words[1],
                    _typecast(Join(Tail1(words, 2))))
           /\ default_states'[W_tag] = default_states[W_tag]
           /\ default_states'[W_set] = default_states[W_set]]_vars

\* C11: a returned snapshot is the template with the lines of this call's
\* text applied and nothing else, and every template field that an earlier
\* snapshot held a non-default value in and that no line of this call's text
\* names holds its default.
C11_NoStaleState ==
    gpc = "returned" =>
        /\ default_states = ParseAll(DefaultStates, lines).states
        /\ \A f \in everSet :
              ~Named(f[1], f[2]) =>
                  Holds(default_states, f[1], f[2], DefaultStates[f[1]].fields[f[2]])

\* C12: a call of get_state_info or get_filename whose liveness check finds
\* no cmus ends with CmusNotRunning at once: cmus-remote is not run, no
\* snapshot is built, and get_filename returns no name; a call that ended
\* with CmusNotRunning has not run cmus-remote.
C12_PlayerNotRunning ==
    /\ [](error = "CmusNotRunning" => (gpc = "raised" /\ ~fetched /\ fpc # "returned"))
    /\ [][(last'.op \in {"get_state_info", "get_filename"} /\ _is_running = FALSE) =>
            /\ gpc' = "raised"
            /\ error' = "CmusNotRunning"
            /\ fetched' = FALSE
            /\ default_states' = <<>>
            /\ last'.op = "get_filename" => (fpc' = "raised" /\ filename' = <<>>)]_vars

\* cmus has exited and get_filename has then failed with CmusNotRunning.
C12_Witness ==
    /\ last.op = "get_filename"
    /\ fpc = "raised"
    /\ error = "CmusNotRunning"
    /\ fetched = FALSE
    /\ realExits = 1

\* The value of the last file line of a text ("" when it has none).
RECURSIVE FileValue(_)
FileValue(ls) ==
    IF Len(ls) = 0 THEN <<>>
    ELSE LET words == Split(ls[Len(ls)]) IN
         IF words[1] = W_file THEN Join(Tail1(words, 2))
         ELSE FileValue(SubSeq(ls, 1, Len(ls) - 1))

\* C15: a call of get_filename that found cmus running and got its status
\* text returns the value of the text's file line without its directory part
\* and its last extension, and the empty string when the text has no file
\* line or an empty file value.
C15_BaseFilename ==
    (fpc \in {"returned", "raised"} /\ fetched /\ error # "CalledProcessError") =>
        /\ fpc = "returned"
        /\ filename = Stem(FileValue(lines))

\* The value the documentation gives for a text as a whole.
WholeFloat(t) ==
    LET k == LeadingDigits(t) IN
    /\ Len(t) >= k + 2
    /\ t[k + 1] = "."
    /\ \A i \in k + 2..Len(t) : t[i] \in Digits

WholeInt(t) == Len(t) >= 1 /\ \A i \in 1..Len(t) : t[i] \in Digits

CastRef(t) ==
    IF t \in {<<"t", "r", "u", "e">>, <<"T", "r", "u", "e">>} THEN BoolV(TRUE)
    ELSE IF t \in {<<"f", "a", "l", "s", "e">>, <<"F", "a", "l", "s", "e">>} THEN BoolV(FALSE)
    ELSE IF WholeFloat(t)
    THEN LET k == LeadingDigits(t) IN
         Normal(NatOf(SubSeq(t, 1, k) \o Tail1(t, k + 2)), 0 - (Len(t) - k - 1))
    ELSE IF WholeInt(t) THEN IntV(NatOf(t))
    ELSE StrV(t)

\* C13: _typecast returns what the documentation gives for the text as a
\* whole: true / false for the four literals, a float for digits, a dot and
\* digits, an int for digits only, and the text itself otherwise.
C13_TypecastReference ==
    castResult # <<>> => castResult = CastRef(castArg)

\* C14: monitor returns within one poll cycle of a stop request: it takes at
\* most one more sample after the request.
C14_CooperativeStop == pollsAfterStop <= 1

====
